---- MODULE Spec2Model ----
(***************************************************************************)
(* Model of grammers-client's dialog iterator (DialogIter::total,          *)
(* DialogIter::next) and ClientHandle::delete_dialog                       *)
(* (lib/grammers-client/src/client/dialogs.rs).                            *)
(*                                                                         *)
(* An Option<T> is a sequence of length at most one: None is <<>> and      *)
(* Some(v) is <<v>>.  A Result is a record with a tag.                     *)
(***************************************************************************)
EXTENDS Integers, Sequences, FiniteSets, TLC

VARIABLES
    iter,          \* the IterBuffer: request, limit, fetched, buffer, last_chunk, total
    pc,            \* "ready", or "panicked" once next() has panicked
    invokes,       \* number of requests the iterator handed to client.invoke
    chunks,        \* ids of the decoded items of every chunk next() fetched, concatenated
    returned,      \* ids of the items next() returned as Ok(Some(item)), in call order
    last,          \* the last call made: operation, request sent, response, result
    nextCalled,    \* next() has been called at least once
    totalSeen,     \* a total() call has returned Ok(n): the caller has observed a total
    totalFirst,    \* Option: the first total a caller who keeps it observed, and its answer
    totalFetches,  \* number of total() calls whose transport request succeeded
    fullAt,        \* Option: what next() saw when it received a Dialogs (full) response
    emptyAt,       \* Option: the number of requests issued when next() received a page of no items
    sent_log,      \* requests delete_dialog handed to the transport, with their outcome
    handler        \* the handler attribute last expanded: its arguments and what came of them

vars == << iter, pc, invokes, chunks, returned, last, nextCalled, totalSeen, totalFirst,
           totalFetches, fullAt, emptyAt, sent_log, handler >>

iterVars == << iter, pc, invokes, chunks, returned, last, nextCalled, totalSeen,
               totalFirst, totalFetches, fullAt, emptyAt >>

\* ---------------------------------------------------------------- bounds

\* Transport requests one iterator may issue in a run.
MaxInvokes == 3
\* Caller limits explored: 0..MaxSmall, MAX_LIMIT+1..MAX_LIMIT+MaxSmall, and no limit.
MaxSmall == 3
\* delete_dialog calls in a run.
MaxDeletes == 2
\* The server answers with a page of at most MaxShort dialogs, or one of lim - 1 or lim.
MaxShort == 3

\* Longest argument list a handler attribute is written with.
MaxArgs == 3

\* ---------------------------------------------------------------- constants

MAX_LIMIT == 100

None == << >>
Some(v) == << v >>
Min(a, b) == IF a < b THEN a ELSE b

\* ---------------------------------------------------------------- data model

\* tl::enums::InputPeer, the conversation-endpoint kinds.
InputPeerEmpty == [kind |-> "Empty"]
InputPeerSelf == [kind |-> "PeerSelf"]
InputPeerUser(id, hash) == [kind |-> "User", user_id |-> id, access_hash |-> hash]
InputPeerUserFromMessage(p, m, id) ==
    [kind |-> "UserFromMessage", peer |-> p, msg_id |-> m, user_id |-> id]
InputPeerChat(id) == [kind |-> "Chat", chat_id |-> id]
InputPeerChannel(id, hash) == [kind |-> "Channel", channel_id |-> id, access_hash |-> hash]
InputPeerChannelFromMessage(p, m, id) ==
    [kind |-> "ChannelFromMessage", peer |-> p, msg_id |-> m, channel_id |-> id]

\* The request DialogIter::new builds; GetDialogs is the CursorState.
GetDialogs0 ==
    [ exclude_pinned |-> FALSE,
      folder_id      |-> None,
      offset_date    |-> 0,
      offset_id      |-> 0,
      offset_peer    |-> InputPeerEmpty,
      limit          |-> 0,
      hash           |-> 0 ]

\* Caller limits a run may start with (IterBuffer::limit(n), or none).
CallerLimits ==
    {None} \cup {Some(n) : n \in 0..MaxSmall}
           \cup {Some(MAX_LIMIT + n) : n \in 1..MaxSmall}

\* IterBuffer::from_request: the iterator DialogIter::new returns, with the limit
\* the caller chose before the first call.
from_request(lim, request) ==
    [ request    |-> request,
      limit      |-> lim,
      fetched    |-> 0,
      buffer     |-> << >>,
      last_chunk |-> FALSE,
      total      |-> None ]

\* ---------------------------------------------------------------- the server

\* The server's dialog list: the s-th dialog (s = 1, 2, ...) is with a user, a
\* basic group or a channel in turn; every dialog has its own peer.
PeerOf(s) ==
    CASE s % 3 = 1 -> [kind |-> "User", id |-> s]
      [] s % 3 = 2 -> [kind |-> "Chat", id |-> s]
      [] OTHER     -> [kind |-> "Channel", id |-> s]

AccessHash(s) == 42 + s

\* The entity the side-tables (users, chats) carry for the s-th dialog.
EntityOf(s) == [peer |-> PeerOf(s), access_hash |-> AccessHash(s)]

\* The top message of the s-th dialog: none, a delivered message, a service
\* message or an empty placeholder, by the dialog's place in the list.
MsgTable == << "Message", "None", "Message", "Service", "Empty", "None", "Service" >>
MsgKind(s) == MsgTable[(s % Len(MsgTable)) + 1]
HasMessage(s) == MsgKind(s) # "None"
MessageOf(s) ==
    IF MsgKind(s) = "Empty"
    THEN [kind |-> "Empty", id |-> s, peer_id |-> PeerOf(s)]
    ELSE [kind |-> MsgKind(s), id |-> s, date |-> 500 + s, peer_id |-> PeerOf(s)]

\* The page of n dialogs that follows the first `base` ones, with its side-tables.
Page(base, n) ==
    [ dialogs  |-> [i \in 1..n |-> [peer |-> PeerOf(base + i), top_message |-> base + i]],
      messages |-> {MessageOf(base + i) : i \in {j \in 1..n : HasMessage(base + j)}},
      entities |-> {EntityOf(base + i) : i \in 1..n} ]

\* Page lengths the server answers a request of limit lim with: never more than
\* lim, which is what the request's limit field asks of the server.
ChunkLens(lim) == {n \in 0..lim : n <= MaxShort \/ n >= lim - 1}

\* The counts a Slice or NotModified response declares; a Slice never declares
\* fewer dialogs than it carries.
Counts == {3, 250}
SliceCounts(n) == {c \in Counts : c >= n}

TransportErrors == {"Dropped", "Rpc"}
RespErr(e) == [kind |-> "Err", err |-> e]
RespCancelled == [kind |-> "Cancelled"]
RespNotModified(c) == [kind |-> "NotModified", count |-> c]
RespDialogs(page) == [kind |-> "Dialogs", page |-> page]
RespSlice(c, page) == [kind |-> "Slice", count |-> c, page |-> page]

\* What client.invoke(&request) may give back when `base` dialogs precede the
\* requested page: a transport error, a cancellation at the await, or one of
\* the three response shapes.
Responses(request, base) ==
    {RespErr(e) : e \in TransportErrors} \cup {RespCancelled}
    \cup {RespNotModified(c) : c \in Counts}
    \cup {RespDialogs(Page(base, n)) : n \in ChunkLens(request.limit)}
    \cup UNION {{RespSlice(c, Page(base, n)) : c \in SliceCounts(n)} :
                    n \in ChunkLens(request.limit)}

\* ---------------------------------------------------------------- results

\* Ok(v) is what next() and delete_dialog() return, OkTotal(n) what total() does.
Ok(v) == [tag |-> "Ok", val |-> v]
OkTotal(n) == [tag |-> "Ok", total |-> n]
Err(e) == [tag |-> "Err", err |-> e]
Cancelled == [tag |-> "Cancelled"]
Panic == [tag |-> "Panic"]

\* What `client.invoke(..).await?` makes the caller return when the response is
\* no page: the transport's error as it is, or nothing at all when the future is
\* dropped at the await.
Propagate(resp) == IF resp.kind = "Err" THEN Err(resp.err) ELSE Cancelled

\* ---------------------------------------------------------------- Dialog, IterBuffer

\* Dialog::new: the raw dialog with its entity and its last message looked up in
\* the response's side-tables.
Dialog_new(dialog, messages, entities) ==
    [ dialog       |-> dialog,
      entity       |-> CHOOSE e \in entities : e.peer = dialog.peer,
      last_message |-> IF \E m \in messages : m.peer_id = dialog.peer
                       THEN Some(CHOOSE m \in messages : m.peer_id = dialog.peer)
                       ELSE None ]

\* Dialog::input_peer: the anchor the next request is given.
input_peer(d) ==
    CASE d.entity.peer.kind = "User" -> InputPeerUser(d.entity.peer.id, d.entity.access_hash)
      [] d.entity.peer.kind = "Chat" -> InputPeerChat(d.entity.peer.id)
      [] OTHER -> InputPeerChannel(d.entity.peer.id, d.entity.access_hash)

\* IterBuffer::limit_reached.
limit_reached(it) == it.limit # None /\ it.fetched >= it.limit[1]

\* IterBuffer::determine_limit: the remaining quota, at most max.
determine_limit(it, max) ==
    IF it.limit # None THEN Min(it.limit[1] - it.fetched, max) ELSE max

\* IterBuffer::pop_item: the front of the buffer, counted as fetched.
pop_item(it) ==
    IF it.buffer # << >>
    THEN [ it  |-> [it EXCEPT !.buffer = Tail(it.buffer), !.fetched = it.fetched + 1],
           ret |-> Some(Head(it.buffer)) ]
    ELSE [ it |-> it, ret |-> None ]

\* IterBuffer::next_raw: Some(result) when no fetch is needed (the limit is
\* reached, an item is buffered, or the last chunk was seen), None otherwise.
next_raw(it) ==
    IF limit_reached(it) THEN [it |-> it, ret |-> Some(Ok(None))]
    ELSE IF it.buffer # << >>
         THEN [it |-> pop_item(it).it, ret |-> Some(Ok(pop_item(it).ret))]
         ELSE IF it.last_chunk THEN [it |-> it, ret |-> Some(Ok(None))]
              ELSE [it |-> it, ret |-> None]

\* ---------------------------------------------------------------- DialogIter::total

\* dialogs.rs:47-51, the count total() reads from a response.
total_of(resp) ==
    CASE resp.kind = "Dialogs"     -> Len(resp.page.dialogs)
      [] resp.kind = "Slice"       -> resp.count
      [] resp.kind = "NotModified" -> resp.count

\* A total() that sends the request with the limit it finds in it.
total_keeplimit(it, resp) ==
    IF it.total # None
    THEN [it |-> it, result |-> OkTotal(it.total[1]), sent |-> None]
    ELSE IF resp.kind \in {"Err", "Cancelled"}
         THEN [it |-> it, result |-> Propagate(resp), sent |-> Some(it.request)]
         ELSE [ it     |-> [it EXCEPT !.total = Some(total_of(resp))],
                result |-> OkTotal(total_of(resp)),
                sent   |-> Some(it.request) ]

\* A total() that records a total of 0 when the transport fails.
total_failzero(it, resp) ==
    IF it.total # None
    THEN [it |-> it, result |-> OkTotal(it.total[1]), sent |-> None]
    ELSE LET it1 == [it EXCEPT !.request.limit = 1]
         IN  IF resp.kind \in {"Err", "Cancelled"}
             THEN [ it     |-> [it1 EXCEPT !.total = Some(0)],
                    result |-> Propagate(resp),
                    sent   |-> Some(it1.request) ]
             ELSE [ it     |-> [it1 EXCEPT !.total = Some(total_of(resp))],
                    result |-> OkTotal(total_of(resp)),
                    sent   |-> Some(it1.request) ]

\* A total() that forgets its memo: it asks the server every time.
total_unmemoized(it, resp) ==
    LET it1 == [it EXCEPT !.request.limit = 1]
    IN  IF resp.kind \in {"Err", "Cancelled"}
        THEN [it |-> it1, result |-> Propagate(resp), sent |-> Some(it1.request)]
        ELSE [ it     |-> [it1 EXCEPT !.total = Some(total_of(resp))],
               result |-> OkTotal(total_of(resp)),
               sent   |-> Some(it1.request) ]

\* DialogIter::total with `resp` the answer invoke gives if it is called:
\* the iterator afterwards, the result, and the request sent if one was.
total(it, resp) ==
    IF it.total # None
    THEN [it |-> it, result |-> OkTotal(it.total[1]), sent |-> None]
    ELSE LET it1 == [it EXCEPT !.request.limit = 1]
         IN  IF resp.kind \in {"Err", "Cancelled"}
             THEN [it |-> it1, result |-> Propagate(resp), sent |-> Some(it1.request)]
             ELSE [ it     |-> [it1 EXCEPT !.total = Some(total_of(resp))],
                    result |-> OkTotal(total_of(resp)),
                    sent   |-> Some(it1.request) ]

\* ---------------------------------------------------------------- DialogIter::next

\* A classification that applies the length check to a full response too.
classify_by_length(it, resp) ==
    [it EXCEPT !.last_chunk = Len(resp.page.dialogs) < it.request.limit,
               !.total = Some(total_of(resp))]

\* A classification that adds each slice's declared count to the total so far.
classify_summing(it, resp) ==
    IF resp.kind = "Dialogs"
    THEN [it EXCEPT !.last_chunk = TRUE, !.total = Some(Len(resp.page.dialogs))]
    ELSE [it EXCEPT !.last_chunk = Len(resp.page.dialogs) < it.request.limit,
                    !.total = Some(resp.count +
                                   (IF it.total = None THEN 0 ELSE it.total[1]))]

\* A classification that takes a slice for the last only when it is short by
\* more than one dialog.
classify_short_by_two(it, resp) ==
    IF resp.kind = "Dialogs"
    THEN [it EXCEPT !.last_chunk = TRUE, !.total = Some(Len(resp.page.dialogs))]
    ELSE [it EXCEPT !.last_chunk = Len(resp.page.dialogs) + 1 < it.request.limit,
                    !.total = Some(resp.count)]

\* A classification that records no total for a full response.
classify_full_untotalled(it, resp) ==
    IF resp.kind = "Dialogs"
    THEN [it EXCEPT !.last_chunk = TRUE]
    ELSE [it EXCEPT !.last_chunk = Len(resp.page.dialogs) < it.request.limit,
                    !.total = Some(resp.count)]

\* dialogs.rs:68-78, a page response classified: last_chunk and total.
classify(it, resp) ==
    IF resp.kind = "Dialogs"
    THEN [it EXCEPT !.last_chunk = TRUE, !.total = Some(Len(resp.page.dialogs))]
    ELSE [it EXCEPT !.last_chunk = Len(resp.page.dialogs) < it.request.limit,
                    !.total = Some(resp.count)]

\* A decoding that walks the page backwards.
decoded_reversed(page) ==
    [i \in 1..Len(page.dialogs) |->
        Dialog_new(page.dialogs[Len(page.dialogs) + 1 - i], page.messages, page.entities)]

\* dialogs.rs:84-91, the page's dialogs decoded, in order.
decoded(page) ==
    [i \in 1..Len(page.dialogs) |-> Dialog_new(page.dialogs[i], page.messages, page.entities)]

extend(it, page) == [it EXCEPT !.buffer = it.buffer \o decoded(page)]

\* dialogs.rs:96-100, the last message of the last buffered item that has one.
find_last_message(buffer) ==
    LET having == {i \in 1..Len(buffer) : buffer[i].last_message # None}
    IN  IF having = {} THEN None
        ELSE buffer[CHOOSE i \in having : \A j \in having : j <= i].last_message

\* Offsets for which an empty placeholder clears the date.
offsets_from_reset_date(request, message) ==
    IF message.kind \in {"Message", "Service"}
    THEN [request EXCEPT !.offset_date = message.date, !.offset_id = message.id]
    ELSE [request EXCEPT !.offset_date = 0, !.offset_id = message.id]

\* dialogs.rs:103-115, the offsets a last message gives the request.
offsets_from(request, message) ==
    IF message.kind \in {"Message", "Service"}
    THEN [request EXCEPT !.offset_date = message.date, !.offset_id = message.id]
    ELSE [request EXCEPT !.offset_id = message.id]

\* A preparation that anchors the next page at the first buffered item.
update_offsets_first_peer(it) ==
    IF ~it.last_chunk /\ it.buffer # << >>
    THEN LET r1 == [it.request EXCEPT !.exclude_pinned = TRUE]
             lm == find_last_message(it.buffer)
             r2 == IF lm # None THEN offsets_from(r1, lm[1]) ELSE r1
         IN  [it EXCEPT !.request = [r2 EXCEPT !.offset_peer = input_peer(it.buffer[1])]]
    ELSE it

\* A preparation made after every non-empty page, the last one included.
update_offsets_always(it) ==
    IF it.buffer # << >>
    THEN LET r1 == [it.request EXCEPT !.exclude_pinned = TRUE]
             lm == find_last_message(it.buffer)
             r2 == IF lm # None THEN offsets_from(r1, lm[1]) ELSE r1
         IN  [it EXCEPT !.request =
                 [r2 EXCEPT !.offset_peer = input_peer(it.buffer[Len(it.buffer)])]]
    ELSE it

\* dialogs.rs:93-118, the request prepared for the page after this one.
update_offsets(it) ==
    IF ~it.last_chunk /\ it.buffer # << >>
    THEN LET r1 == [it.request EXCEPT !.exclude_pinned = TRUE]
             lm == find_last_message(it.buffer)
             r2 == IF lm # None THEN offsets_from(r1, lm[1]) ELSE r1
         IN  [it EXCEPT !.request =
                 [r2 EXCEPT !.offset_peer = input_peer(it.buffer[Len(it.buffer)])]]
    ELSE it

\* A request that always asks for a whole page, whatever the caller's limit.
next_request_max(it) == [it.request EXCEPT !.limit = MAX_LIMIT]

\* A request sent with whatever limit the request was left with.
next_request_stale(it) == it.request

\* dialogs.rs:67, the request next() sends.
next_request(it) == [it.request EXCEPT !.limit = determine_limit(it, MAX_LIMIT)]

\* A next() that fetches whenever the buffer is empty, the last chunk seen or not.
next_refetch(it, resp) ==
    IF limit_reached(it) \/ it.buffer # << >>
    THEN [it |-> next_raw(it).it, result |-> next_raw(it).ret[1], sent |-> None]
    ELSE LET it1 == [it EXCEPT !.request = next_request(it)]
         IN  CASE resp.kind \in {"Err", "Cancelled"} ->
                    [it |-> it1, result |-> Propagate(resp), sent |-> Some(it1.request)]
               [] resp.kind = "NotModified" ->
                    [it |-> it1, result |-> Panic, sent |-> Some(it1.request)]
               [] OTHER ->
                    LET it2 == update_offsets(extend(classify(it1, resp), resp.page))
                    IN  [ it     |-> pop_item(it2).it,
                          result |-> Ok(pop_item(it2).ret),
                          sent   |-> Some(it1.request) ]

\* DialogIter::next with `resp` the answer invoke gives if it is called.
next(it, resp) ==
    IF next_raw(it).ret # None
    THEN [it |-> next_raw(it).it, result |-> next_raw(it).ret[1], sent |-> None]
    ELSE LET it1 == [it EXCEPT !.request = next_request(it)]
         IN  CASE resp.kind \in {"Err", "Cancelled"} ->
                    [it |-> it1, result |-> Propagate(resp), sent |-> Some(it1.request)]
               [] resp.kind = "NotModified" ->
                    [it |-> it1, result |-> Panic, sent |-> Some(it1.request)]
               [] OTHER ->
                    LET it2 == update_offsets(extend(classify(it1, resp), resp.page))
                    IN  [ it     |-> pop_item(it2).it,
                          result |-> Ok(pop_item(it2).ret),
                          sent   |-> Some(it1.request) ]

\* ---------------------------------------------------------------- delete_dialog

\* A dispatch that leaves a channel without its access hash.
delete_request_nohash(chat) ==
    CASE chat.kind = "Empty" -> None
      [] chat.kind \in {"PeerSelf", "User", "UserFromMessage"} ->
            Some([ call |-> "messages.DeleteHistory", just_clear |-> FALSE,
                   revoke |-> FALSE, peer |-> chat, max_id |-> 0 ])
      [] chat.kind = "Chat" ->
            Some([ call |-> "messages.DeleteChatUser", chat_id |-> chat.chat_id,
                   user_id |-> "UserSelf" ])
      [] chat.kind = "Channel" ->
            Some([ call |-> "channels.LeaveChannel",
                   channel |-> [ kind |-> "InputChannel",
                                 channel_id |-> chat.channel_id,
                                 access_hash |-> 0 ] ])
      [] chat.kind = "ChannelFromMessage" ->
            Some([ call |-> "channels.LeaveChannel",
                   channel |-> [ kind |-> "InputChannelFromMessage",
                                 peer |-> chat.peer,
                                 msg_id |-> chat.msg_id,
                                 channel_id |-> chat.channel_id ] ])

\* dialogs.rs:144-187, the one call delete_dialog makes for a chat, if any.
delete_request(chat) ==
    CASE chat.kind = "Empty" -> None
      [] chat.kind \in {"PeerSelf", "User", "UserFromMessage"} ->
            Some([ call |-> "messages.DeleteHistory", just_clear |-> FALSE,
                   revoke |-> FALSE, peer |-> chat, max_id |-> 0 ])
      [] chat.kind = "Chat" ->
            Some([ call |-> "messages.DeleteChatUser", chat_id |-> chat.chat_id,
                   user_id |-> "UserSelf" ])
      [] chat.kind = "Channel" ->
            Some([ call |-> "channels.LeaveChannel",
                   channel |-> [ kind |-> "InputChannel",
                                 channel_id |-> chat.channel_id,
                                 access_hash |-> chat.access_hash ] ])
      [] chat.kind = "ChannelFromMessage" ->
            Some([ call |-> "channels.LeaveChannel",
                   channel |-> [ kind |-> "InputChannelFromMessage",
                                 peer |-> chat.peer,
                                 msg_id |-> chat.msg_id,
                                 channel_id |-> chat.channel_id ] ])

\* ClientHandle::delete_dialog with `answer` what invoke gives if it is called:
\* the request sent, if any, and the result, the call's payload dropped.
delete_dialog(chat, answer) ==
    [ chat   |-> chat,
      sent   |-> delete_request(chat),
      answer |-> IF delete_request(chat) = None THEN None ELSE Some(answer),
      result |-> IF delete_request(chat) = None THEN Ok(<< >>)
                 ELSE IF answer.kind = "Ok" THEN Ok(<< >>) ELSE Err(answer.err) ]

\* The chats delete_dialog is called with: every kind, two of some.
Chats ==
    { InputPeerEmpty, InputPeerSelf,
      InputPeerUser(9, 42),
      InputPeerUserFromMessage(InputPeerChat(5), 7, 9),
      InputPeerChat(9), InputPeerChat(10),
      InputPeerChannel(9, 42), InputPeerChannel(10, 43),
      InputPeerChannelFromMessage(InputPeerChat(5), 7, 9),
      InputPeerChannelFromMessage(InputPeerUser(8, 41), 6, 10) }

\* What invoke answers a delete or leave call with.
Answers ==
    { [kind |-> "Ok", payload |-> "AffectedHistory"],
      [kind |-> "Ok", payload |-> "Updates"],
      [kind |-> "Err", err |-> "TransportError"],
      [kind |-> "Err", err |-> "PEER_ID_INVALID"] }

\* ---------------------------------------------------------------- handler attributes

\* update.rs:14-18, the three attributes.
UpdateTypes == {"Message", "CallbackQuery", "InlineQuery"}

\* update.rs:21-27, UpdateType::as_str.
as_str(update_type) ==
    CASE update_type = "Message"       -> "Message"
      [] update_type = "CallbackQuery" -> "Callback_Query"
      [] update_type = "InlineQuery"   -> "Inline_Query"

\* str::to_ascii_lowercase on the three names as_str gives (update.rs:141).
to_ascii_lowercase(str) ==
    CASE str = "Message"        -> "message"
      [] str = "Callback_Query" -> "callback_query"
      [] str = "Inline_Query"   -> "inline_query"

\* Literals an attribute argument may carry (syn::Lit).
LitStr(v) == [type |-> "Str", value |-> v]
LitBool(v) == [type |-> "Bool", value |-> v]
LitInt(v) == [type |-> "Int", value |-> v]

\* The shapes of an attribute argument (syn::NestedMeta): a bare literal,
\* name = literal, and a bare name.
ArgLit(lit) == [meta |-> "Lit", lit |-> lit]
ArgNameValue(name, lit) == [meta |-> "NameValue", name |-> name, lit |-> lit]
ArgPath(name) == [meta |-> "Path", name |-> name]

\* Arguments handler attributes are written with.
AttrArgs ==
    {ArgLit(LitStr("a")), ArgLit(LitStr("b")), ArgLit(LitInt(1))}
    \cup {ArgNameValue("pattern", l) : l \in {LitStr("a"), LitStr("b"), LitBool(TRUE)}}
    \cup {ArgNameValue("is_regex", l) : l \in {LitBool(TRUE), LitBool(FALSE), LitStr("a")}}
    \cup {ArgNameValue("is_command", l) : l \in {LitBool(TRUE), LitBool(FALSE), LitInt(1)}}
    \cup {ArgNameValue("other", LitBool(TRUE))}
    \cup {ArgPath("is_regex")}

\* Argument lists of up to MaxArgs arguments.
ArgLists == UNION {[1..n -> AttrArgs] : n \in 0..MaxArgs}

\* The item an attribute is put on: a function with a name, or something
\* syn cannot parse as a function.
Inputs == {[is_fn |-> TRUE, ident |-> "on_start"], [is_fn |-> FALSE]}

\* syn::Error with its message and the place it points at: an argument's
\* literal or the argument itself (by its position in the list), the call
\* site, or the item.
SynError(msg, at) == [tag |-> "Err", msg |-> msg, at |-> at]
CallSite == "call_site"

\* update.rs:49-104, the loop of Args::new from argument i on, with the three
\* options as they stand: the first error, or the options after the last
\* argument.
RECURSIVE args_loop(_, _, _, _, _)
args_loop(args, i, pattern, is_regex, is_command) ==
    IF i > Len(args)
    THEN [tag |-> "Done", pattern |-> pattern, is_regex |-> is_regex,
          is_command |-> is_command]
    ELSE LET arg == args[i]
         IN  CASE arg.meta = "Lit" /\ arg.lit.type = "Str" ->
                    IF pattern = None
                    THEN args_loop(args, i + 1, Some(arg.lit), is_regex, is_command)
                    ELSE SynError("multiple patterns specified, expected one.", i)
               [] arg.meta = "NameValue" ->
                    IF arg.name = "pattern"
                    THEN IF arg.lit.type = "Str"
                         THEN IF pattern = None
                              THEN args_loop(args, i + 1, Some(arg.lit), is_regex, is_command)
                              ELSE SynError("multiple patterns spicifed, expected one.", i)
                         ELSE SynError("attribute pattern expects &str.", i)
                    ELSE IF arg.name = "is_regex"
                    THEN IF arg.lit.type = "Bool"
                         THEN args_loop(args, i + 1, pattern, Some(arg.lit.value), is_command)
                         ELSE SynError("attribute is_regex expects bool.", i)
                    ELSE IF arg.name = "is_command"
                    THEN IF arg.lit.type = "Bool"
                         THEN args_loop(args, i + 1, pattern, is_regex, Some(arg.lit.value))
                         ELSE SynError("attribute is_command expects bool.", i)
                    ELSE args_loop(args, i + 1, pattern, is_regex, is_command)
               [] OTHER -> SynError("unknown attribute.", i)

\* update.rs:44-124, Args::new.
Args_new(args) ==
    LET end == args_loop(args, 1, None, None, None)
    IN  IF end.tag = "Err" THEN end
        ELSE IF end.pattern = None
        THEN SynError("attribute pattern expected.", CallSite)
        ELSE [ tag        |-> "Ok",
               pattern    |-> end.pattern[1],
               is_regex   |-> IF end.is_regex # None THEN end.is_regex[1] ELSE FALSE,
               is_command |-> IF end.is_command # None THEN end.is_command[1] ELSE FALSE ]

\* update.rs:135-157, Update::new.
Update_new(args, input, update_type) ==
    IF args = << >>
    THEN SynError([ text |-> "invalid handler definition, expected #[{}(pattern = \"<some pattern>\")]",
                    arg  |-> to_ascii_lowercase(as_str(update_type)) ], CallSite)
    ELSE IF ~input.is_fn
    THEN SynError("syn::parse::<ItemFn>", "input")
    ELSE IF Args_new(args).tag = "Err"
    THEN Args_new(args)
    ELSE [ tag |-> "Ok", name |-> input.ident, args |-> Args_new(args),
           ast |-> input, update_type |-> update_type ]

\* update.rs:198-208, register: the handler's tokens, or a compile error.
register(args, input, update_type) ==
    LET update == Update_new(args, input, update_type)
    IN  IF update.tag = "Ok"
        THEN [ emits       |-> "handler",
               name        |-> update.name,
               pattern     |-> update.args.pattern,
               update_type |-> as_str(update.update_type),
               is_regex    |-> update.args.is_regex,
               is_command  |-> update.args.is_command ]
        ELSE [emits |-> "compile_error", err |-> update]

\* ---------------------------------------------------------------- specification

\* What `last` keeps of a response: its shape, the error if it is one, the
\* declared count if it has one, and the number of dialogs of a page.
Brief(resp) ==
    CASE resp.kind = "Err"         -> resp
      [] resp.kind = "NotModified" -> resp
      [] resp.kind = "Slice"       ->
            [kind |-> "Slice", count |-> resp.count, n |-> Len(resp.page.dialogs)]
      [] resp.kind = "Dialogs"     -> [kind |-> "Dialogs", n |-> Len(resp.page.dialogs)]
      [] OTHER                     -> [kind |-> resp.kind]
NoAnswer == [kind |-> "none"]
\* Some response, handed to a call to learn what it does before it invokes.
AnyResp == RespCancelled

\* No handler attribute has been expanded.
NoHandler == [args |-> << >>, expanded |-> FALSE]

NoCall == [op |-> "none", sent |-> None, answer |-> NoAnswer, result |-> [tag |-> "none"]]

Init ==
    /\ \E lim \in CallerLimits : iter = from_request(lim, GetDialogs0)
    /\ pc = "ready"
    /\ invokes = 0
    /\ chunks = << >>
    /\ returned = << >>
    /\ last = NoCall
    /\ nextCalled = FALSE
    /\ totalSeen = FALSE
    /\ totalFirst = None
    /\ totalFetches = 0
    /\ fullAt = None
    /\ emptyAt = None
    /\ sent_log = << >>
    /\ handler = NoHandler

\* The identity of a decoded item, and of each item of a sequence.
IdOf(d) == d.dialog.top_message
Ids(items) == [i \in 1..Len(items) |-> IdOf(items[i])]

PageIds(page) == [i \in 1..Len(page.dialogs) |-> page.dialogs[i].top_message]

IsPage(resp) == resp.kind \in {"Dialogs", "Slice"}

\* What one call of total() does; a caller who is `watching` keeps the first
\* total it is given.
TotalCall(watching) ==
    /\ pc = "ready"
    /\ LET req == total(iter, AnyResp).sent
       IN  /\ req # None => invokes < MaxInvokes
           /\ \E resp \in (IF req = None THEN {AnyResp} ELSE Responses(req[1], Len(chunks))) :
                LET out == total(iter, resp)
                IN  /\ iter' = out.it
                    /\ invokes' = invokes + Len(out.sent)
                    /\ last' = [ op |-> "total", sent |-> out.sent,
                                 answer |-> IF out.sent = None THEN NoAnswer ELSE Brief(resp),
                                 result |-> out.result ]
                    /\ totalSeen' = (totalSeen \/ out.result.tag = "Ok")
                    /\ totalFirst' = IF watching /\ totalFirst = None /\ out.result.tag = "Ok"
                                     THEN Some([ kind |-> IF out.sent = None THEN NoAnswer.kind
                                                         ELSE resp.kind,
                                                 value |-> out.result.total ])
                                     ELSE totalFirst
                    /\ totalFetches' = IF out.sent # None /\ out.result.tag = "Ok"
                                       THEN totalFetches + 1 ELSE totalFetches
    /\ UNCHANGED << pc, chunks, returned, nextCalled, fullAt, emptyAt, sent_log, handler >>

\* One call of total().
Total == TotalCall(FALSE)

\* One call of total() by a caller who keeps the first total it is given.
TotalWatched == TotalCall(TRUE)

\* What one call of next() does when `resp` is the answer invoke gives if called.
NextItemOn(resp) ==
    LET out == next(iter, resp)
        fetched == out.sent # None /\ IsPage(resp)
    IN  /\ iter' = out.it
        /\ pc' = IF out.result.tag = "Panic" THEN "panicked" ELSE pc
        /\ invokes' = invokes + Len(out.sent)
        /\ chunks' = IF fetched THEN chunks \o PageIds(resp.page) ELSE chunks
        /\ returned' = IF out.result.tag = "Ok" /\ out.result.val # None
                       THEN Append(returned, IdOf(out.result.val[1]))
                       ELSE returned
        /\ last' = [ op |-> "next", sent |-> out.sent,
                     answer |-> IF out.sent = None THEN NoAnswer ELSE Brief(resp),
                     result |-> out.result ]
        /\ fullAt' = IF fetched /\ resp.kind = "Dialogs"
                     THEN Some([ n |-> Len(resp.page.dialogs),
                                 base |-> Len(chunks),
                                 invokes |-> invokes + 1 ])
                     ELSE fullAt
        /\ emptyAt' = IF fetched /\ Len(resp.page.dialogs) = 0 /\ emptyAt = None
                      THEN Some(invokes + 1) ELSE emptyAt
        /\ nextCalled' = TRUE
        /\ UNCHANGED << totalSeen, totalFirst, totalFetches, sent_log, handler >>

\* One call of next(), the transport answering as it pleases.
NextItem ==
    /\ pc = "ready"
    /\ LET req == next(iter, AnyResp).sent
       IN  /\ req # None => invokes < MaxInvokes
           /\ \E resp \in (IF req = None THEN {AnyResp} ELSE Responses(req[1], Len(chunks))) :
                NextItemOn(resp)

\* One call of delete_dialog().
DeleteDialog ==
    /\ Len(sent_log) < MaxDeletes
    /\ \E chat \in Chats, answer \in Answers :
         sent_log' = Append(sent_log, delete_dialog(chat, answer))
    /\ UNCHANGED << iterVars, handler >>

\* One expansion of a handler attribute (lib.rs:12-25).
Register ==
    /\ ~handler.expanded
    /\ \E args \in ArgLists, input \in Inputs, update_type \in UpdateTypes :
         handler' = [ args |-> args, input |-> input, update_type |-> update_type,
                      expanded |-> TRUE, out |-> register(args, input, update_type) ]
    /\ UNCHANGED << iterVars, sent_log >>

Next == Total \/ NextItem

Spec == Init /\ [][Next]_vars

NextWatched == TotalWatched \/ NextItem

\* The iterator with a caller who keeps the first total it is given.
SpecWatched == Init /\ [][NextWatched]_vars

NextDelete == DeleteDialog

SpecDelete == Init /\ [][NextDelete]_vars

NextMacro == Register

\* The macros crate on its own: one iterator, untouched, stands by.
InitMacro == Init /\ iter.limit = None

SpecMacro == InitMacro /\ [][NextMacro]_vars

\* The pages a transport that never fails answers a request with: full
\* responses and slices. When `closing`, only the pages that end the
\* enumeration: a full response, or a slice shorter than the limit asked.
PagesOnly(request, base, closing) ==
    {RespDialogs(Page(base, n)) : n \in ChunkLens(request.limit)}
    \cup UNION {{RespSlice(c, Page(base, n)) : c \in SliceCounts(n)} :
                    n \in {m \in ChunkLens(request.limit) : closing => m < request.limit}}

\* One call of next() by a caller who keeps calling, with a transport that
\* never fails. A caller without a limit is answered with a closing page by
\* the time the last request is sent; a caller with a limit is answered as the
\* server pleases.
NextItemLive ==
    /\ pc = "ready"
    /\ LET req == next(iter, AnyResp).sent
       IN  /\ req # None => invokes < MaxInvokes
           /\ \E resp \in (IF req = None THEN {AnyResp}
                            ELSE PagesOnly(req[1], Len(chunks),
                                           iter.limit = None /\ invokes + 1 = MaxInvokes)) :
                NextItemOn(resp)

NextLive == NextItemLive

\* The caller calls next() again and again: a call that can change the state
\* is eventually made.
SpecLive == Init /\ [][NextLive]_vars /\ WF_vars(NextItemLive)

\* ---------------------------------------------------------------- properties

\* The step is a call of next(), of total().
NextStep == last'.op = "next" /\ vars' # vars
TotalStep == last'.op = "total" /\ vars' # vars
Failed(call) == call.answer.kind \in {"Err", "Cancelled"}
FetchedPage(call) == call.answer.kind \in {"Dialogs", "Slice"}

\* next() has received a page, with dialogs or without.
PageFetched == chunks # << >> \/ emptyAt # None

\* C1: at any point the items next() has returned, followed by the items still
\* buffered, are the fetched chunks' items concatenated in fetch order and in
\* the order within each chunk; and when next() returns empty every fetched
\* item has been returned, once each and in that order.
C1_ReturnedIsConcatenation ==
    /\ chunks = returned \o Ids(iter.buffer)
    /\ (last.op = "next" /\ last.result = Ok(None)) => returned = chunks

\* next() has just returned empty after two chunks were returned in full.
C1_Witness ==
    /\ last.op = "next" /\ last.result = Ok(None)
    /\ Len(returned) > MAX_LIMIT
    /\ invokes >= 2

\* C2 as stated: once a total() call has returned a value, the memoized total
\* never changes again, whatever is called and whatever the server answers
\* (stated for the calls the server answers with a page or an error, so that
\* it does not rest on what a NotModified answer does).
C2_TotalNeverOverwritten ==
    [][ (totalSeen /\ last.answer.kind # "NotModified" /\ last'.answer.kind # "NotModified")
            => iter'.total = iter.total ]_vars

\* C2 amended: the memoized total, once set, is never cleared and no total()
\* call changes it (each returns it as it is); only a next() call that fetches
\* a page replaces it, by what that page gives.
C2_TotalChangedOnlyByFetch ==
    [][ iter.total # None =>
          /\ iter'.total # None
          /\ iter'.total # iter.total => (last'.op = "next" /\ FetchedPage(last'))
          /\ TotalStep => (last'.result = OkTotal(iter.total[1]) /\ iter'.total = iter.total)
      ]_vars

\* total() fetched once, with limit 1, so it saw 0, 1 or a declared count; the
\* total is now the length of a full response next() received.
C2_Witness == totalFetches = 1 /\ iter.total = Some(2) /\ last.op = "next"

\* C3 as stated: once last_chunk is true it stays true, no call invokes the
\* transport, and every next() call returns empty.
C3_TerminalAlwaysEmpty ==
    [][ iter.last_chunk =>
          /\ iter'.last_chunk
          /\ invokes' = invokes
          /\ NextStep => last'.result = Ok(None)
      ]_vars

\* C3 amended: once last_chunk is true it stays true and no next() or total()
\* call invokes the transport; next() returns empty as soon as the buffer is
\* empty (while items are buffered it returns them).
C3_TerminalMonotonic ==
    [][ iter.last_chunk =>
          /\ iter'.last_chunk
          /\ invokes' = invokes
          /\ (NextStep \/ TotalStep) => last'.sent = None
          /\ (NextStep /\ iter.buffer = << >>) => last'.result = Ok(None)
      ]_vars

\* After the last chunk was drained, next() returned empty without a request.
C3_Witness ==
    /\ iter.last_chunk /\ iter.buffer = << >>
    /\ last.op = "next" /\ last.sent = None /\ last.result = Ok(None)
    /\ chunks # << >>

\* C4 as stated: a call whose request the transport answers with NotModified
\* (hash is 0 in every request) fails with a protocol-contract violation; it
\* does not return a successful result.
C4_NotModifiedFails ==
    last.answer.kind = "NotModified" => (last.sent[1].hash = 0 /\ last.result.tag = "Panic")

\* C5 as stated: a call whose fetch fails with a transport error or is
\* cancelled leaves the iterator, every field of the request included, as it
\* was before the call.
C5_FailureChangesNothing ==
    [][ (Failed(last') /\ (NextStep \/ TotalStep)) => iter' = iter ]_vars

\* C5 amended: a call whose fetch fails with a transport error or is cancelled
\* returns that error as it is (nothing, when cancelled), has issued that one
\* request and no other, and leaves buffer, total, last_chunk, fetched and every
\* field of the request but limit as they were; limit is the one the failed
\* request carried (1 for total(), the remaining quota capped at 100 for next()).
C5_FailureChangesOnlyLimit ==
    [][ (Failed(last') /\ (NextStep \/ TotalStep)) =>
          /\ iter' = [iter EXCEPT !.request.limit = last'.sent[1].limit]
          /\ last'.sent = Some(iter'.request)
          /\ last'.op = "total" => last'.sent[1].limit = 1
          /\ last'.op = "next" => last'.sent[1].limit \in 1..MAX_LIMIT
          /\ invokes' = invokes + 1
          /\ last'.result = (IF last'.answer.kind = "Err"
                             THEN Err(last'.answer.err) ELSE Cancelled)
          /\ UNCHANGED << chunks, returned, pc >>
      ]_vars

\* After a first chunk was fetched and returned, a fetch by next() failed with
\* a transport error; the buffer is still empty and the offsets are the first
\* chunk's.
C5_Witness ==
    /\ last.op = "next" /\ last.answer = RespErr("Rpc") /\ last.result = Err("Rpc")
    /\ Len(chunks) = MAX_LIMIT /\ Len(returned) = MAX_LIMIT
    /\ iter.buffer = << >> /\ iter.request.exclude_pinned

\* C6 as stated: a total() call that comes after a next() call issues no
\* transport request (stated for an iterator the caller gave no limit).
C6_TotalAfterNextSendsNothing ==
    (last.op = "total" /\ nextCalled /\ iter.limit = None) => last.sent = None

\* C7 as stated: over the total() calls on one iterator at most one issues a
\* transport request that succeeds, and every request total() issues has limit
\* 1; once a total() call has succeeded, every total() call issues no request
\* and returns the value the first one returned. (A first value taken from a
\* NotModified answer is left aside: that answer is C4's matter.)
C7_TotalAlwaysSame ==
    /\ [](/\ totalFetches <= 1
          /\ (last.op = "total" /\ last.sent # None) => last.sent[1].limit = 1)
    /\ [][ (TotalStep /\ totalSeen) => (last'.sent = None /\ invokes' = invokes) ]_vars
    /\ []((/\ last.op = "total" /\ last.result.tag = "Ok"
           /\ totalFirst # None /\ totalFirst[1].kind # "NotModified") =>
                last.result.total = totalFirst[1].value)

\* C7, amended: over the total() calls on one iterator at most one issues a
\* transport request that succeeds, and every request total() issues has limit
\* 1; once a total() call has succeeded, a total() call issues no request,
\* returns the memoized total and changes nothing, so that total() calls with
\* no fetching next() between them return the same value; the value total()
\* returns differs from an earlier one only after a next() call has received
\* a page, and is then what that page gave.
C7_TotalIdempotent ==
    /\ [](/\ totalFetches <= 1
          /\ (last.op = "total" /\ last.sent # None) => last.sent[1].limit = 1)
    /\ [](totalSeen <=> totalFirst # None)
    /\ [][ (TotalStep /\ totalSeen) =>
             /\ last'.sent = None
             /\ invokes' = invokes
             /\ last'.result = OkTotal(iter.total[1])
             /\ (last.op = "total" /\ last.result.tag = "Ok") => last'.result = last.result
             /\ iter' = iter
         ]_vars
    /\ [][ (totalSeen /\ iter'.total # iter.total) =>
             /\ NextStep /\ FetchedPage(last')
             /\ iter'.total = Some(IF last'.answer.kind = "Slice"
                                   THEN last'.answer.count ELSE last'.answer.n)
         ]_vars
    /\ []((totalFirst # None /\ iter.total # Some(totalFirst[1].value)) => PageFetched)

\* A total() call fetched the total from a Slice declaring 250; then a next()
\* call failed; then total() returned 250 again with no request.
C7_Witness ==
    /\ last.op = "total" /\ last.sent = None /\ last.result = OkTotal(250)
    /\ totalFirst = Some([kind |-> "Slice", value |-> 250])
    /\ totalFetches = 1 /\ invokes = 2 /\ nextCalled
    /\ chunks = << >> /\ emptyAt = None

\* A total() call returned 3; then a next() call received a Slice declaring
\* 250; then total() returned 250 with no request.
C7_WitnessOverwritten ==
    /\ last.op = "total" /\ last.sent = None /\ last.result = OkTotal(250)
    /\ totalFirst = Some([kind |-> "Slice", value |-> 3])
    /\ totalFetches = 1 /\ invokes = 2

\* C8: from the moment next() receives a full response of n items the iterator
\* is terminal, total is n and total() returns n without a request, no further
\* request is issued, each next() call returns the next of the n items in
\* order, and once all n are returned next() returns empty.
C8_FullResponse ==
    /\ [](fullAt # None =>
            /\ iter.last_chunk
            /\ iter.total = Some(fullAt[1].n)
            /\ invokes = fullAt[1].invokes
            /\ Len(chunks) = fullAt[1].base + fullAt[1].n
            /\ Len(returned) <= Len(chunks)
            /\ returned = SubSeq(chunks, 1, Len(returned))
            /\ last.op = "total" => (last.result = OkTotal(fullAt[1].n) /\ last.sent = None))
    /\ [][ (fullAt' # None /\ NextStep) =>
             IF Len(returned) < fullAt'[1].base + fullAt'[1].n
             THEN /\ last'.result.val # None
                  /\ IdOf(last'.result.val[1]) = chunks'[Len(returned) + 1]
                  /\ returned' = Append(returned, chunks'[Len(returned) + 1])
             ELSE /\ last'.result = Ok(None)
                  /\ fullAt # None => last'.sent = None
                  /\ returned' = returned
         ]_vars

\* The only request of the run was answered with a full response of 3 items;
\* three items were returned and a fourth next() call returned empty.
C8_Witness ==
    /\ fullAt # None /\ fullAt[1].n = 3 /\ fullAt[1].base = 0
    /\ iter.limit = None
    /\ returned = << 1, 2, 3 >>
    /\ last.op = "next" /\ last.result = Ok(None) /\ last.sent = None
    /\ invokes = 1

\* What C9 expects of one delete_dialog call.
C9_Expected(call) ==
    /\ call.chat.kind = "Empty" => (call.sent = None /\ call.result = Ok(<< >>))
    /\ call.chat.kind # "Empty" => Len(call.sent) = 1
    /\ call.chat.kind \in {"PeerSelf", "User", "UserFromMessage"} =>
          call.sent = Some([ call |-> "messages.DeleteHistory", just_clear |-> FALSE,
                             revoke |-> FALSE, max_id |-> 0, peer |-> call.chat ])
    /\ call.chat.kind = "Chat" =>
          /\ call.sent[1].call = "messages.DeleteChatUser"
          /\ call.sent[1].chat_id = call.chat.chat_id
          /\ call.sent[1].user_id = "UserSelf"
    /\ call.chat.kind = "Channel" =>
          /\ call.sent[1].call = "channels.LeaveChannel"
          /\ call.sent[1].channel =
                [ kind |-> "InputChannel", channel_id |-> call.chat.channel_id,
                  access_hash |-> call.chat.access_hash ]
    /\ call.chat.kind = "ChannelFromMessage" =>
          /\ call.sent[1].call = "channels.LeaveChannel"
          /\ call.sent[1].channel =
                [ kind |-> "InputChannelFromMessage", peer |-> call.chat.peer,
                  msg_id |-> call.chat.msg_id, channel_id |-> call.chat.channel_id ]
    /\ call.sent # None =>
          /\ call.answer[1].kind = "Ok" => call.result = Ok(<< >>)
          /\ call.answer[1].kind = "Err" => call.result = Err(call.answer[1].err)

\* C9: delete_dialog issues no call and succeeds for an Empty chat, and issues
\* exactly one call for any other, of the kind and with the fields the chat's
\* kind asks for; it succeeds iff that call does and fails with its error.
C9_DeleteDispatch == \A i \in 1..Len(sent_log) : C9_Expected(sent_log[i])

\* delete_dialog(Empty) sent nothing; delete_dialog(Channel{9, 42}) then sent
\* one leave-call with channel_id 9 and access_hash 42, which failed.
C9_Witness ==
    /\ Len(sent_log) = 2
    /\ sent_log[1].chat = InputPeerEmpty /\ sent_log[1].sent = None
    /\ sent_log[2].chat = InputPeerChannel(9, 42)
    /\ sent_log[2].sent[1].channel.channel_id = 9
    /\ sent_log[2].sent[1].channel.access_hash = 42
    /\ sent_log[2].result = Err("PEER_ID_INVALID")

\* The remaining quota of a caller with limit lim who was returned n items
\* (without a limit the quota never binds), capped at a page.
C10_Quota(lim, n) == IF lim = None THEN MAX_LIMIT ELSE Min(lim[1] - n, MAX_LIMIT)

\* C10: every request next() issues carries limit = min(remaining quota, 100),
\* a value in 1..100; next() returns empty, with no request, once the caller's
\* limit is reached or the last chunk is drained; the number of items returned
\* never exceeds the caller's limit.
C10_LimitRespected ==
    /\ [](iter.limit # None => Len(returned) <= iter.limit[1])
    /\ [][ NextStep =>
             /\ last'.sent # None =>
                  /\ last'.sent[1].limit = C10_Quota(iter.limit, Len(returned))
                  /\ last'.sent[1].limit \in 1..MAX_LIMIT
             /\ (\/ (iter.limit # None /\ Len(returned) >= iter.limit[1])
                 \/ (iter.last_chunk /\ iter.buffer = << >>)) =>
                  (last'.result = Ok(None) /\ last'.sent = None)
         ]_vars

\* A caller with a limit above one page got a whole page, then asked for the
\* rest with a smaller limit, and after the last item next() returned empty
\* though the server has more.
C10_Witness ==
    /\ iter.limit = Some(MAX_LIMIT + MaxSmall)
    /\ Len(returned) = MAX_LIMIT + MaxSmall
    /\ ~iter.last_chunk /\ iter.request.limit = MaxSmall
    /\ last.op = "next" /\ last.result = Ok(None) /\ last.sent = None

\* C11: when next() receives a Slice, the iterator is terminal afterwards
\* exactly when the slice holds fewer dialogs than the limit of the request
\* that fetched it, and total becomes the slice's declared count, whatever it
\* was before.
C11_SliceClassified ==
    [][ (NextStep /\ last'.answer.kind = "Slice") =>
            /\ iter'.last_chunk = (last'.answer.n < last'.sent[1].limit)
            /\ iter'.total = Some(last'.answer.count)
            /\ Len(chunks') = Len(chunks) + last'.answer.n ]_vars

\* Two slices of a hundred dialogs, each declaring 250, then total() reports 250
\* without a request of its own.
C11_Witness ==
    /\ Len(chunks) = 2 * MAX_LIMIT
    /\ ~iter.last_chunk
    /\ invokes = 2
    /\ totalFetches = 0
    /\ last.op = "total"
    /\ last.result = OkTotal(250)

\* The step is a next() that fetched a page of at least one dialog and did not
\* find it to be the last one.
NonTerminalFetch ==
    NextStep /\ FetchedPage(last') /\ last'.answer.n > 0 /\ ~iter'.last_chunk

\* The places in the server's list of the dialogs the step fetched, and those
\* of them that carry a top message.
FetchedNow == (Len(chunks) + 1)..Len(chunks')
FetchedWithMessage == {s \in FetchedNow : HasMessage(s)}
LastWithMessage == CHOOSE s \in FetchedWithMessage : \A t \in FetchedWithMessage : t <= s

\* C12: the offsets follow the kind of the last message found: a delivered or
\* a service message gives its date and its id to offset_date and offset_id;
\* an empty placeholder gives its id to offset_id and leaves offset_date as it
\* was before the call.
C12_OffsetLaw ==
    [][ (NonTerminalFetch /\ FetchedWithMessage # {}) =>
            /\ iter'.request.offset_id = LastWithMessage
            /\ MsgKind(LastWithMessage) \in {"Message", "Service"} =>
                    iter'.request.offset_date = MessageOf(LastWithMessage).date
            /\ MsgKind(LastWithMessage) = "Empty" =>
                    iter'.request.offset_date = iter.request.offset_date ]_vars

\* The second page ended in an empty placeholder (dialog 102) after the first
\* had set offset_date from a delivered message (dialog 100, date 600).
C12_Witness ==
    /\ last.op = "next" /\ FetchedPage(last)
    /\ Len(chunks) = 102 /\ MsgKind(102) = "Empty"
    /\ ~iter.last_chunk
    /\ iter.request.offset_id = 102
    /\ iter.request.offset_date = 600

\* The anchor of the dialog at place s of the server's list.
AnchorOf(s) ==
    CASE PeerOf(s).kind = "User"    -> InputPeerUser(s, AccessHash(s))
      [] PeerOf(s).kind = "Chat"    -> InputPeerChat(s)
      [] PeerOf(s).kind = "Channel" -> InputPeerChannel(s, AccessHash(s))

\* C13: after a next() that fetched a non-empty page and did not find it to be
\* the last, exclude_pinned is set, offset_peer is the anchor of the page's
\* last dialog, and offset_id comes from the last dialog of the page that has
\* a top message; when no dialog of the page has one, offset_date and
\* offset_id are what they were and offset_peer is still moved.
C13_NextPagePrepared ==
    [][ NonTerminalFetch =>
            /\ iter'.request.exclude_pinned
            /\ iter'.request.offset_peer = AnchorOf(Len(chunks'))
            /\ FetchedWithMessage # {} => iter'.request.offset_id = LastWithMessage
            /\ FetchedWithMessage = {} =>
                    /\ iter'.request.offset_date = iter.request.offset_date
                    /\ iter'.request.offset_id = iter.request.offset_id ]_vars

\* The page ended in a dialog without a top message (dialog 103): the offsets
\* come from the one before it, the anchor from dialog 103 itself.
C13_Witness ==
    /\ last.op = "next" /\ FetchedPage(last)
    /\ Len(chunks) = 103 /\ ~HasMessage(103)
    /\ ~iter.last_chunk
    /\ iter.request.exclude_pinned
    /\ iter.request.offset_id = 102
    /\ iter.request.offset_peer = AnchorOf(103)

\* A page of a single dialog that has no top message: only the anchor and
\* exclude_pinned are set, and the buffer is empty once the dialog is returned.
C13_WitnessNoMessage ==
    /\ last.op = "next" /\ FetchedPage(last)
    /\ Len(chunks) = 1 /\ ~HasMessage(1)
    /\ ~iter.last_chunk /\ iter.buffer = << >>
    /\ iter.request.offset_peer = AnchorOf(1)
    /\ iter.request.offset_id = 0 /\ iter.request.offset_date = 0

\* The four pagination fields of a request.
Pagination(request) ==
    << request.exclude_pinned, request.offset_date, request.offset_id, request.offset_peer >>

\* C14: the pagination fields change only in a next() that fetched a non-empty
\* page and did not find it to be the last; a next() that received the last
\* page, a next() served from the buffer, a failed next() and every total()
\* leave them as they were; folder_id and hash are those of the first request
\* for ever.
C14_PaginationFrame ==
    /\ [](iter.request.folder_id = GetDialogs0.folder_id /\ iter.request.hash = GetDialogs0.hash)
    /\ [][ Pagination(iter'.request) # Pagination(iter.request) => NonTerminalFetch ]_vars
    /\ [][ (TotalStep \/ (NextStep /\ (last'.sent = None \/ iter'.last_chunk))) =>
                Pagination(iter'.request) = Pagination(iter.request) ]_vars

\* A short slice of one dialog fetched after a whole page: the fields are still
\* those the first page gave (dialog 100), not those of dialog 101.
C14_Witness ==
    /\ last.op = "next" /\ last.answer.kind = "Slice" /\ last.answer.n = 1
    /\ Len(chunks) = MAX_LIMIT + 1
    /\ iter.last_chunk
    /\ iter.request.exclude_pinned
    /\ iter.request.offset_id = MAX_LIMIT
    /\ iter.request.offset_peer = AnchorOf(MAX_LIMIT)

\* C15: a next() call issues a request only when, as it is called, the buffer
\* is empty and the last chunk has not been seen; a call made with a non-empty
\* buffer issues none and returns the buffer's front; no call issues more than
\* one request.
C15_FetchOnlyWhenDrained ==
    [][ NextStep =>
            /\ invokes' - invokes \in {0, 1}
            /\ invokes' - invokes = Len(last'.sent)
            /\ last'.sent # None => (iter.buffer = << >> /\ ~iter.last_chunk)
            /\ iter.buffer # << >> =>
                    /\ last'.sent = None /\ invokes' = invokes
                    /\ last'.result = Ok(Some(iter.buffer[1])) ]_vars

\* A next() served from a buffer that still holds items afterwards, with no
\* request issued, before the last chunk was seen.
C15_Witness ==
    /\ last.op = "next" /\ last.sent = None
    /\ last.result.tag = "Ok" /\ last.result.val # None
    /\ iter.buffer # << >> /\ ~iter.last_chunk
    /\ invokes = 1 /\ Len(returned) = 2

\* C16: a next() that receives a page of no dialogs sent a limit of at least
\* one, finds the page to be the last, returns empty and leaves the pagination
\* fields alone; once such a page was received the iterator stays terminal
\* with an empty buffer and no request is issued any more.
C16_EmptyChunkTerminal ==
    /\ [][ (NextStep /\ FetchedPage(last') /\ last'.answer.n = 0) =>
                /\ last'.sent[1].limit >= 1
                /\ iter'.last_chunk
                /\ last'.result = Ok(None)
                /\ Pagination(iter'.request) = Pagination(iter.request)
                /\ emptyAt' # None ]_vars
    /\ [](emptyAt # None =>
                /\ iter.last_chunk /\ iter.buffer = << >>
                /\ invokes = emptyAt[1])
    /\ [][ emptyAt # None => (invokes' = invokes /\ chunks' = chunks) ]_vars

\* After a slice of no dialogs, a further next() returned empty with no request.
C16_Witness ==
    /\ emptyAt # None /\ fullAt = None
    /\ invokes = emptyAt[1]
    /\ iter.last_chunk
    /\ last.op = "next" /\ last.sent = None /\ last.result = Ok(None)

\* C17: a total() that fetched and succeeded changes total and the request's
\* limit (to 1) and nothing else of the iterator, and fetches or returns no
\* item; the request a fetching next() sends is the request as it stood with
\* its limit replaced by min(remaining quota, 100), so it does not depend on
\* the limit a probe left behind.
C17_ProbeDoesNotDisturb ==
    /\ [][ (TotalStep /\ last'.sent # None /\ last'.result.tag = "Ok") =>
                /\ iter' = [iter EXCEPT !.total = Some(last'.result.total),
                                        !.request.limit = 1]
                /\ chunks' = chunks /\ returned' = returned ]_vars
    /\ [][ (NextStep /\ last'.sent # None) =>
                last'.sent[1] =
                    [iter.request EXCEPT !.limit = C10_Quota(iter.limit, Len(returned))] ]_vars

\* A probe by total() left limit 1 in the request, and the next() after it
\* asked for a whole page and received it.
C17_Witness ==
    /\ totalFetches = 1 /\ invokes = 2
    /\ last.op = "next" /\ last.sent # None
    /\ last.sent[1].limit = MAX_LIMIT
    /\ Len(chunks) = MAX_LIMIT
    /\ iter.limit = None

\* C18: in every state total is set if the last chunk has been seen, if the
\* buffer holds an item, or if next() has received a page; and a total() call
\* made once next() has received a page issues no request.
C18_TotalKnownAfterFetch ==
    /\ [](iter.last_chunk => iter.total # None)
    /\ [](iter.buffer # << >> => iter.total # None)
    /\ [](PageFetched => iter.total # None)
    /\ [][ (TotalStep /\ PageFetched) =>
                /\ last'.sent = None /\ invokes' = invokes
                /\ last'.result = OkTotal(iter.total[1]) ]_vars

\* total() called with items still buffered and no probe of its own ever made:
\* it answered from what next() recorded.
C18_Witness ==
    /\ last.op = "total" /\ last.sent = None
    /\ totalFetches = 0 /\ invokes = 1
    /\ iter.buffer # << >>
    /\ last.result = OkTotal(iter.total[1])

\* next() has returned empty without a request.
Exhausted == last.op = "next" /\ last.result = Ok(None) /\ last.sent = None

\* C19: with a transport that never fails, a caller who keeps calling next()
\* and either has a limit or is eventually answered with a full response or a
\* short slice reaches a point from which every next() returns empty with no
\* request; and once next() has returned empty, every later next() returns
\* empty and issues no request.
C19_Terminates ==
    /\ <>[]Exhausted
    /\ [][ (last.op = "next" /\ last.result = Ok(None)) =>
                (last'.result = Ok(None) /\ last'.sent = None /\ invokes' = invokes) ]_vars

\* A caller without a limit took more than a page, was answered with a closing
\* page, was returned every dialog fetched and then empty.
C19_Witness ==
    /\ iter.limit = None
    /\ Exhausted
    /\ iter.last_chunk
    /\ Len(chunks) > MAX_LIMIT
    /\ returned = chunks

\* An argument is a pattern: a bare string, or pattern = a string.
IsPattern(arg) ==
    \/ arg.meta = "Lit" /\ arg.lit.type = "Str"
    \/ arg.meta = "NameValue" /\ arg.name = "pattern" /\ arg.lit.type = "Str"

\* An argument is one the parser knows: a pattern in either form, or a value
\* for pattern, is_regex or is_command.
IsRecognised(arg) ==
    \/ arg.meta = "Lit" /\ arg.lit.type = "Str"
    \/ arg.meta = "NameValue" /\ arg.name \in {"pattern", "is_regex", "is_command"}

\* An argument gives pattern, is_regex or is_command a value of the wrong type.
IsMistyped(arg) ==
    /\ arg.meta = "NameValue"
    /\ \/ arg.name = "pattern" /\ arg.lit.type # "Str"
       \/ arg.name \in {"is_regex", "is_command"} /\ arg.lit.type # "Bool"

PatternsGiven(args) == Cardinality({i \in 1..Len(args) : IsPattern(args[i])})
Names(args) == {args[i].name : i \in {j \in 1..Len(args) : args[j].meta = "NameValue"}}

\* C20: an expansion gives a handler only when exactly one pattern is written;
\* no argument, no pattern or a second pattern gives an error; a pattern that
\* is not a string, or an is_regex or is_command that is not a bool, gives an
\* error; a handler has is_regex and is_command false when they are not
\* written; and an argument that is not recognised gives an error, the
\* 'unknown attribute.' error when nothing before it is at fault.
C20_ParsingStrict ==
    handler.expanded =>
        LET args == handler.args
            out  == handler.out
            unknown == {i \in 1..Len(args) : ~IsRecognised(args[i])}
        IN  /\ out.emits = "handler" => PatternsGiven(args) = 1
            /\ (args = << >> \/ PatternsGiven(args) # 1) => out.emits = "compile_error"
            /\ (\E i \in 1..Len(args) : IsMistyped(args[i])) => out.emits = "compile_error"
            /\ out.emits = "handler" =>
                    /\ "is_regex" \notin Names(args) => out.is_regex = FALSE
                    /\ "is_command" \notin Names(args) => out.is_command = FALSE
            /\ unknown # {} => out.emits = "compile_error"
            /\ ( /\ unknown # {} /\ handler.input.is_fn
                  /\ \A i \in 1..Len(args) :
                        (\A u \in unknown : i < u) =>
                            (~IsMistyped(args[i]) /\
                             PatternsGiven(SubSeq(args, 1, i)) <= 1) ) =>
                    out.err.msg = "unknown attribute."

\* What is left of C20 when a name = value argument with a name the parser
\* does not know counts as no argument at all.
C20_StrictButForUnknownNames ==
    handler.expanded =>
        LET args == handler.args
            out  == handler.out
            unknown == {i \in 1..Len(args) :
                            ~IsRecognised(args[i]) /\ args[i].meta # "NameValue"}
        IN  /\ out.emits = "handler" => PatternsGiven(args) = 1
            /\ (args = << >> \/ PatternsGiven(args) # 1) => out.emits = "compile_error"
            /\ (\E i \in 1..Len(args) : IsMistyped(args[i])) => out.emits = "compile_error"
            /\ out.emits = "handler" =>
                    /\ "is_regex" \notin Names(args) => out.is_regex = FALSE
                    /\ "is_command" \notin Names(args) => out.is_command = FALSE
            /\ unknown # {} => out.emits = "compile_error"

\* A handler came out of an attribute written with pattern = "a" and an
\* argument the parser does not know.
C20_UnknownAccepted ==
    /\ handler.expanded
    /\ handler.out.emits = "handler"
    /\ \E i \in 1..Len(handler.args) : ~IsRecognised(handler.args[i])

====
